---- MODULE Spec2Model ----
(***************************************************************************)
(* CustomKeypad: matrix keypad driver (src/src/CustomKeypad.cpp/.h).       *)
(* The model covers the GPIO sweep (scanKeypad, getKeys), the debounce and *)
(* hold state machine (getKey), the setters and the listener registration. *)
(* Rows and columns are indexed from 0 as in the code.  Characters are     *)
(* their byte values; 0 is "no key".                                       *)
(***************************************************************************)
EXTENDS Integers, Sequences, FiniteSets, TLC

\* ------------------------------------------------------------------ bounds
MaxTime == 4
MaxDebounce == 1
MaxHold == 2
MaxKeys == 2

\* ------------------------------------------------- configuration, constants
NumRows == 2
NumCols == 2

KEY_RELEASED == 0
KEY_PRESSED == 1
KEY_HOLD == 2

DefaultDebounceTime == 50
DefaultHoldTime == 1000

Rows == 0 .. (NumRows - 1)
Cols == 0 .. (NumCols - 1)

\* _keymap[r][c]: '1','2',.. row by row ('1' is byte 49); never 0
Keymap(r, c) == 49 + r * NumCols + c

Chars == {Keymap(r, c) : r \in Rows, c \in Cols}

\* KeypadEventListener values: nullptr and the functions a caller may install
NullListener == "nullptr"
Listeners == {NullListener, "onKey"}

VARIABLES
    now,            \* millis(): the monotonic millisecond clock
    closed,         \* the switches currently closed, as <<r, c>> pairs
    colMode,        \* pinMode of each column pin
    rowMode,        \* pinMode of each row pin
    colLevel,       \* level last written to each column pin
    debounceTime,   \* _debounceTime
    holdTime,       \* _holdTime
    lastChange,     \* _lastChange
    pressStart,     \* _pressStart
    lastKey,        \* _lastKey
    keyState,       \* _keyState
    holding,        \* _holding
    eventListener,  \* _eventListener
    keysBuffer,     \* the caller's buffer during a getKeys sweep (0: not written)
    pc,             \* position of the sweep in progress ("idle" when none)
    ci,             \* column index c of the sweep in progress
    ri,             \* row index r of the sweep in progress
    cnt,            \* count of the getKeys sweep in progress
    mk,             \* maxKeys of the getKeys sweep in progress
    hist,           \* what the last call did (observation only)
    pend,           \* a change suppressed by the debounce and scanned ever since
    accKey,         \* the key of the last accepted change
    holdsSinceAccept, \* hold events since the last accepted change
    surplus,        \* listener invocations so far, minus the accepted changes and
                    \* hold entries of the polls made with a listener installed
    pollAt,         \* the time of the last poll (recorded under SpecTimed only)
    otherAt         \* the time of the last poll whose scan was not the present
                    \* _lastKey (recorded under SpecTimed only)

vars == <<now, closed, colMode, rowMode, colLevel, debounceTime, holdTime,
          lastChange, pressStart, lastKey, keyState, holding, eventListener,
          keysBuffer, pc, ci, ri, cnt, mk, hist, pend, accKey,
          holdsSinceAccept, surplus, pollAt, otherAt>>

pinVars == <<colMode, rowMode, colLevel>>
cfgVars == <<debounceTime, holdTime, eventListener>>
fsmVars == <<lastChange, pressStart, lastKey, keyState, holding>>
sweepVars == <<pc, ci, ri, cnt, mk, keysBuffer>>
runVars == <<pollAt, otherAt>>
obsVars == <<pend, accKey, holdsSinceAccept, surplus, pollAt, otherAt>>

NoPend == 0 - 1

\* a caller's buffer of MaxKeys + 1 bytes, nothing written yet
EmptyBuffer == [i \in 0 .. MaxKeys |-> 0]

\* what a listener that is not invoked sees: nothing
NoView == [state |-> KEY_RELEASED, lastKey |-> 0, pressed |-> FALSE]

NoHist == [op |-> "none", key |-> 0, ret |-> 0, ev |-> "none", calls |-> <<>>,
           seen |-> NoView,
           preKey |-> 0, preState |-> 0, preChange |-> 0, preHolding |-> FALSE,
           due |-> FALSE, cl |-> {}, max |-> 0, buf |-> EmptyBuffer]

\* ------------------------------------------------------------------- GPIO
\* digitalRead(_rows[r]): a row reads HIGH exactly when a column driven HIGH
\* is bridged to it through a closed switch (rows are pulled down).
DigitalRead(cl, lv, r) ==
    IF \E c \in Cols : lv[c] = "HIGH" /\ <<r, c>> \in cl THEN "HIGH" ELSE "LOW"

Begun == \A c \in Cols : colMode[c] = "OUTPUT"

\* ------------------------------------------------------------- scanKeypad
RECURSIVE ScanCols(_, _, _), ScanRows(_, _, _, _)

\* the early return without the restoring digitalWrite(_cols[c], LOW)
ScanHitNoRestore(lv, c, r) == [key |-> Keymap(r, c), lv |-> lv]

\* the early return reading the keymap as _keymap[c][r]
ScanHitTransposed(lv, c, r) == [key |-> Keymap(c, r), lv |-> [lv EXCEPT ![c] = "LOW"]]

\* the early return of the inner loop: restore the column, return the key
ScanHit(lv, c, r) == [key |-> Keymap(r, c), lv |-> [lv EXCEPT ![c] = "LOW"]]

\* for (r = ..) with column c already HIGH
ScanRows(cl, lv, c, r) ==
    IF r >= NumRows
    THEN ScanCols(cl, [lv EXCEPT ![c] = "LOW"], c + 1)
    ELSE IF DigitalRead(cl, lv, r) = "HIGH"
         THEN ScanHit(lv, c, r)
         ELSE ScanRows(cl, lv, c, r + 1)

\* for (c = ..): drive the column HIGH, walk the rows
ScanCols(cl, lv, c) ==
    IF c >= NumCols
    THEN [key |-> 0, lv |-> lv]
    ELSE ScanRows(cl, [lv EXCEPT ![c] = "HIGH"], c, 0)

scanKeypad(cl, lv) == ScanCols(cl, lv, 0)

\* ----------------------------------------------------------------- getKey
\* the debounce test with >= in place of >
DebounceElapsedOrEqual(t) == t - lastChange >= debounceTime

\* now - _lastChange > _debounceTime
DebounceElapsed(t) == t - lastChange > debounceTime

\* the hold test without the !_holding latch
HoldDueNoLatch(key, t) == key # 0 /\ t - pressStart >= holdTime

\* a hold test that is made only when a listener is installed
HoldDueWithListener(key, t) ==
    eventListener # NullListener /\ key # 0 /\ ~holding /\ t - pressStart >= holdTime

\* key && !_holding && (now - _pressStart >= _holdTime)
HoldDue(key, t) == key # 0 /\ ~holding /\ t - pressStart >= holdTime

\* a press timer that restarts for a press only, not for a release
PressStartOnPress(key, t) == IF key # 0 THEN t ELSE pressStart

\* _pressStart = now;
PressStartAt(key, t) == t

\* the new state without the test for the release
NewKeyStateAlwaysPressed(key) == KEY_PRESSED

\* (key ? KEY_PRESSED : KEY_RELEASED)
NewKeyState(key) == IF key # 0 THEN KEY_PRESSED ELSE KEY_RELEASED

\* a dispatch that invokes the listener twice
DispatchTwice(key) == IF eventListener # NullListener THEN <<key, key>> ELSE <<>>

\* if (_eventListener) _eventListener(key): the invocations made
Dispatch(key) == IF eventListener # NullListener THEN <<key>> ELSE <<>>

\* a listener invoked after _lastKey = key
ListenerViewAfterAssign(key, newState) ==
    [state |-> newState, lastKey |-> key, pressed |-> TRUE]

\* what getKeyState() and isPressed(key) answer inside _eventListener(key):
\* _keyState is assigned already, _lastKey = key is yet to come
ListenerView(key, newState) ==
    [state |-> newState, lastKey |-> lastKey, pressed |-> (key = lastKey)]

\* a getKey that keeps and returns the old key while the debounce suppresses
ReturnedUnlessSuppressed(key) ==
    IF key # lastKey /\ ~DebounceElapsed(now) THEN lastKey ELSE key

\* _lastKey = key; return key;
Returned(key) == key

\* the body of getKey after the sweep returned key at time t
getKeyBody(key, t, cl) ==
    LET changed == key # lastKey
        accept == changed /\ DebounceElapsed(t)
        suppress == changed /\ ~DebounceElapsed(t)
        hold == ~changed /\ HoldDue(key, t)
        calls == IF accept \/ hold THEN Dispatch(key) ELSE <<>>
        newState == IF accept THEN NewKeyState(key)
                    ELSE IF hold THEN KEY_HOLD ELSE keyState
    IN  /\ lastChange' = IF accept THEN t ELSE lastChange
        /\ pressStart' = IF accept THEN PressStartAt(key, t) ELSE pressStart
        /\ holding' = IF accept THEN FALSE ELSE IF hold THEN TRUE ELSE holding
        /\ keyState' = newState
        /\ lastKey' = Returned(key)
        /\ hist' = [op |-> "poll", key |-> key, ret |-> Returned(key),
                    ev |-> IF accept THEN "accept"
                           ELSE IF suppress THEN "suppress"
                           ELSE IF hold THEN "hold" ELSE "none",
                    calls |-> calls,
                    seen |-> IF calls # <<>> THEN ListenerView(key, newState)
                             ELSE NoView,
                    preKey |-> lastKey, preState |-> keyState,
                    preChange |-> lastChange, preHolding |-> holding,
                    due |-> (pend = key /\ DebounceElapsed(t)),
                    cl |-> cl, max |-> 0, buf |-> EmptyBuffer]
        /\ pend' = IF suppress /\ key # accKey THEN key
                   ELSE IF pend = key /\ ~accept THEN pend ELSE NoPend
        /\ accKey' = IF accept THEN key ELSE accKey
        /\ holdsSinceAccept' = IF accept THEN 0
                               ELSE IF hold THEN holdsSinceAccept + 1
                               ELSE holdsSinceAccept
        /\ surplus' = surplus + Len(calls)
                       - (IF (accept \/ hold) /\ eventListener # NullListener
                          THEN 1 ELSE 0)

\* char CustomKeypad::getKey()
getKey ==
    /\ Begun
    /\ pc = "idle"
    /\ LET s == scanKeypad(closed, colLevel)
       IN  /\ colLevel' = s.lv
           /\ getKeyBody(s.key, now, closed)
    /\ UNCHANGED <<now, closed, colMode, rowMode, cfgVars, sweepVars, runVars>>

\* char CustomKeypad::getKey(), the times of the polls recorded
getKeyTimed ==
    /\ Begun
    /\ pc = "idle"
    /\ LET s == scanKeypad(closed, colLevel)
       IN  /\ colLevel' = s.lv
           /\ getKeyBody(s.key, now, closed)
           /\ otherAt' = IF s.key # lastKey THEN pollAt ELSE otherAt
    /\ pollAt' = now
    /\ UNCHANGED <<now, closed, colMode, rowMode, cfgVars, sweepVars>>

\* ---------------------------------------------------------------- getKeys
RECURSIVE KeysCols(_, _, _, _, _, _), KeysRows(_, _, _, _, _, _, _)

\* the store with count <= maxKeys in place of count < maxKeys
KeysStoreOffByOne(buf, count, max, c, r) ==
    IF count <= max
    THEN [buf |-> [buf EXCEPT ![count] = Keymap(r, c)], count |-> count + 1]
    ELSE [buf |-> buf, count |-> count]

\* if (count < maxKeys) keysBuffer[count++] = _keymap[r][c];
KeysStore(buf, count, max, c, r) ==
    IF count < max
    THEN [buf |-> [buf EXCEPT ![count] = Keymap(r, c)], count |-> count + 1]
    ELSE [buf |-> buf, count |-> count]

\* for (r = ..) with column c already HIGH
KeysRows(cl, lv, c, r, buf, count, max) ==
    IF r >= NumRows
    THEN KeysCols(cl, [lv EXCEPT ![c] = "LOW"], c + 1, buf, count, max)
    ELSE IF DigitalRead(cl, lv, r) = "HIGH"
         THEN LET st == KeysStore(buf, count, max, c, r)
              IN  KeysRows(cl, lv, c, r + 1, st.buf, st.count, max)
         ELSE KeysRows(cl, lv, c, r + 1, buf, count, max)

\* for (c = ..): drive the column HIGH, walk the rows
KeysCols(cl, lv, c, buf, count, max) ==
    IF c >= NumCols
    THEN [buf |-> buf, count |-> count, lv |-> lv]
    ELSE KeysRows(cl, [lv EXCEPT ![c] = "HIGH"], c, 0, buf, count, max)

\* what a finished getKeys leaves for the caller to see
KeysHist(cl, buf, count, max) ==
    [NoHist EXCEPT !.op = "keys", !.ret = count, !.cl = cl, !.max = max, !.buf = buf]

\* byte CustomKeypad::getKeys(char *keysBuffer, byte maxKeys)
getKeys ==
    /\ Begun
    /\ pc = "idle"
    /\ \E max \in 0 .. MaxKeys :
          LET s == KeysCols(closed, colLevel, 0, EmptyBuffer, 0, max)
          IN  /\ colLevel' = s.lv
              /\ hist' = KeysHist(closed, s.buf, s.count, max)
    /\ UNCHANGED <<now, closed, colMode, rowMode, cfgVars, fsmVars, sweepVars, obsVars>>

\* ------------------------------------------------------------------ begin
\* void CustomKeypad::begin()
begin ==
    /\ pc = "idle"
    /\ colMode' = [c \in Cols |-> "OUTPUT"]
    /\ colLevel' = [c \in Cols |-> "LOW"]
    /\ rowMode' = [r \in Rows |-> "INPUT"]
    /\ hist' = NoHist
    /\ UNCHANGED <<now, closed, cfgVars, fsmVars, sweepVars, obsVars>>

\* ---------------------------------------------------------------- setters
\* void CustomKeypad::setDebounceTime(unsigned int debounceTime)
setDebounceTime ==
    /\ pc = "idle"
    /\ \E d \in 0 .. MaxDebounce : debounceTime' = d
    /\ hist' = NoHist
    /\ UNCHANGED <<now, closed, pinVars, holdTime, eventListener, fsmVars,
                   sweepVars, obsVars>>

\* a setHoldTime that also re-arms the hold latch
setHoldTimeClearsLatch ==
    /\ pc = "idle"
    /\ \E h \in 0 .. MaxHold : holdTime' = h
    /\ holding' = FALSE
    /\ hist' = NoHist
    /\ UNCHANGED <<now, closed, pinVars, debounceTime, eventListener, lastChange,
                   pressStart, lastKey, keyState, sweepVars, obsVars>>

\* void CustomKeypad::setHoldTime(unsigned int holdTime)
setHoldTime ==
    /\ pc = "idle"
    /\ \E h \in 0 .. MaxHold : holdTime' = h
    /\ hist' = NoHist
    /\ UNCHANGED <<now, closed, pinVars, debounceTime, eventListener, fsmVars,
                   sweepVars, obsVars>>

\* void CustomKeypad::addEventListener(KeypadEventListener listener)
addEventListener ==
    /\ pc = "idle"
    /\ \E l \in Listeners : eventListener' = l
    /\ hist' = NoHist
    /\ UNCHANGED <<now, closed, pinVars, debounceTime, holdTime, fsmVars,
                   sweepVars, obsVars>>

\* ---------------------------------------------------------------- queries
getKeyState == keyState
isPressed(key) == lastKey = key

\* ------------------------------------------------------------ environment
\* the millisecond clock advances
Tick ==
    /\ pc = "idle"
    /\ now < MaxTime
    /\ now' = now + 1
    /\ hist' = NoHist
    /\ UNCHANGED <<closed, pinVars, cfgVars, fsmVars, sweepVars, obsVars>>

\* one switch closes or opens (never in the microseconds of a sweep)
Toggle ==
    /\ pc = "idle"
    /\ \E r \in Rows, c \in Cols :
          closed' = IF <<r, c>> \in closed THEN closed \ {<<r, c>>}
                    ELSE closed \cup {<<r, c>>}
    /\ hist' = NoHist
    /\ UNCHANGED <<now, pinVars, cfgVars, fsmVars, sweepVars, obsVars>>

\* ------------------------------------------------------------------- spec
Init ==
    /\ now = 0
    /\ closed = {}
    /\ colMode = [c \in Cols |-> "INPUT"]
    /\ rowMode = [r \in Rows |-> "INPUT"]
    /\ colLevel = [c \in Cols |-> "LOW"]
    /\ debounceTime = DefaultDebounceTime
    /\ holdTime = DefaultHoldTime
    /\ lastChange = 0
    /\ pressStart = 0
    /\ lastKey = 0
    /\ keyState = KEY_RELEASED
    /\ holding = FALSE
    /\ eventListener = NullListener
    /\ keysBuffer = EmptyBuffer
    /\ pc = "idle"
    /\ ci = 0
    /\ ri = 0
    /\ cnt = 0
    /\ mk = 0
    /\ hist = NoHist
    /\ pend = NoPend
    /\ accKey = 0
    /\ holdsSinceAccept = 0
    /\ surplus = 0
    /\ pollAt = NoPend
    /\ otherAt = NoPend

Next ==
    \/ begin
    \/ getKey
    \/ setDebounceTime
    \/ setHoldTime
    \/ addEventListener
    \/ Tick
    \/ Toggle

Spec == Init /\ [][Next]_vars

\* the same calls, each poll leaving its time in pollAt and otherAt
NextTimed ==
    \/ begin
    \/ getKeyTimed
    \/ setDebounceTime
    \/ setHoldTime
    \/ addEventListener
    \/ Tick
    \/ Toggle

SpecTimed == Init /\ [][NextTimed]_vars

\* ------------------------------------------------- the sweeps, pin by pin
\* getKey calls scanKeypad
ScanStart ==
    /\ Begun
    /\ pc = "idle"
    /\ pc' = "scanCol"
    /\ ci' = 0
    /\ hist' = NoHist
    /\ UNCHANGED <<now, closed, pinVars, cfgVars, fsmVars, ri, cnt, mk, keysBuffer,
                   obsVars>>

\* digitalWrite(_cols[c], HIGH)
ScanColHigh ==
    /\ pc = "scanCol"
    /\ ci < NumCols
    /\ colLevel' = [colLevel EXCEPT ![ci] = "HIGH"]
    /\ ri' = 0
    /\ pc' = "scanRow"
    /\ UNCHANGED <<now, closed, colMode, rowMode, cfgVars, fsmVars, ci, cnt, mk,
                   keysBuffer, hist, obsVars>>

\* digitalRead(_rows[r]) is LOW: next row
ScanRowMiss ==
    /\ pc = "scanRow"
    /\ ri < NumRows
    /\ DigitalRead(closed, colLevel, ri) = "LOW"
    /\ ri' = ri + 1
    /\ UNCHANGED <<now, closed, pinVars, cfgVars, fsmVars, pc, ci, cnt, mk,
                   keysBuffer, hist, obsVars>>

\* digitalRead(_rows[r]) is HIGH: restore the column, return, and getKey goes on
ScanRowHit ==
    /\ pc = "scanRow"
    /\ ri < NumRows
    /\ DigitalRead(closed, colLevel, ri) = "HIGH"
    /\ LET s == ScanHit(colLevel, ci, ri)
       IN  /\ colLevel' = s.lv
           /\ getKeyBody(s.key, now, closed)
    /\ pc' = "idle"
    /\ ci' = 0
    /\ ri' = 0
    /\ UNCHANGED <<now, closed, colMode, rowMode, cfgVars, cnt, mk, keysBuffer,
                   runVars>>

\* the rows are done: digitalWrite(_cols[c], LOW), next column
ScanColLow ==
    /\ pc = "scanRow"
    /\ ri >= NumRows
    /\ colLevel' = [colLevel EXCEPT ![ci] = "LOW"]
    /\ ci' = ci + 1
    /\ ri' = 0
    /\ pc' = "scanCol"
    /\ UNCHANGED <<now, closed, colMode, rowMode, cfgVars, fsmVars, cnt, mk,
                   keysBuffer, hist, obsVars>>

\* the columns are done: return 0, and getKey goes on
ScanDone ==
    /\ pc = "scanCol"
    /\ ci >= NumCols
    /\ getKeyBody(0, now, closed)
    /\ pc' = "idle"
    /\ ci' = 0
    /\ UNCHANGED <<now, closed, pinVars, cfgVars, ri, cnt, mk, keysBuffer,
                   runVars>>

\* getKeys(keysBuffer, maxKeys): count = 0
KeysStart ==
    /\ Begun
    /\ pc = "idle"
    /\ \E max \in 0 .. MaxKeys : mk' = max
    /\ cnt' = 0
    /\ keysBuffer' = EmptyBuffer
    /\ ci' = 0
    /\ pc' = "keysCol"
    /\ hist' = NoHist
    /\ UNCHANGED <<now, closed, pinVars, cfgVars, fsmVars, ri, obsVars>>

\* digitalWrite(_cols[c], HIGH)
KeysColHigh ==
    /\ pc = "keysCol"
    /\ ci < NumCols
    /\ colLevel' = [colLevel EXCEPT ![ci] = "HIGH"]
    /\ ri' = 0
    /\ pc' = "keysRow"
    /\ UNCHANGED <<now, closed, colMode, rowMode, cfgVars, fsmVars, ci, cnt, mk,
                   keysBuffer, hist, obsVars>>

\* digitalRead(_rows[r]) is LOW: next row
KeysRowMiss ==
    /\ pc = "keysRow"
    /\ ri < NumRows
    /\ DigitalRead(closed, colLevel, ri) = "LOW"
    /\ ri' = ri + 1
    /\ UNCHANGED <<now, closed, pinVars, cfgVars, fsmVars, pc, ci, cnt, mk,
                   keysBuffer, hist, obsVars>>

\* digitalRead(_rows[r]) is HIGH: store the key if there is room, next row
KeysRowHit ==
    /\ pc = "keysRow"
    /\ ri < NumRows
    /\ DigitalRead(closed, colLevel, ri) = "HIGH"
    /\ LET st == KeysStore(keysBuffer, cnt, mk, ci, ri)
       IN  /\ keysBuffer' = st.buf
           /\ cnt' = st.count
    /\ ri' = ri + 1
    /\ UNCHANGED <<now, closed, pinVars, cfgVars, fsmVars, pc, ci, mk, hist, obsVars>>

\* the rows are done: digitalWrite(_cols[c], LOW), next column
KeysColLow ==
    /\ pc = "keysRow"
    /\ ri >= NumRows
    /\ colLevel' = [colLevel EXCEPT ![ci] = "LOW"]
    /\ ci' = ci + 1
    /\ ri' = 0
    /\ pc' = "keysCol"
    /\ UNCHANGED <<now, closed, colMode, rowMode, cfgVars, fsmVars, cnt, mk,
                   keysBuffer, hist, obsVars>>

\* the columns are done: return count
\* a getKeys that hands the first key it found to the debounce machine
KeysDoneFeedsPoll ==
    /\ pc = "keysCol"
    /\ ci >= NumCols
    /\ getKeyBody(keysBuffer[0], now, closed)
    /\ pc' = "idle"
    /\ ci' = 0
    /\ cnt' = 0
    /\ mk' = 0
    /\ keysBuffer' = EmptyBuffer
    /\ UNCHANGED <<now, closed, pinVars, cfgVars, ri, runVars>>

KeysDone ==
    /\ pc = "keysCol"
    /\ ci >= NumCols
    /\ hist' = KeysHist(closed, keysBuffer, cnt, mk)
    /\ pc' = "idle"
    /\ ci' = 0
    /\ cnt' = 0
    /\ mk' = 0
    /\ keysBuffer' = EmptyBuffer
    /\ UNCHANGED <<now, closed, pinVars, cfgVars, fsmVars, ri, obsVars>>

\* a begin that leaves the columns driven HIGH
beginTracedDrivesHigh ==
    /\ pc = "idle"
    /\ colMode' = [c \in Cols |-> "OUTPUT"]
    /\ colLevel' = [c \in Cols |-> "HIGH"]
    /\ rowMode' = [r \in Rows |-> "INPUT"]
    /\ hist' = [NoHist EXCEPT !.op = "begin"]
    /\ UNCHANGED <<now, closed, cfgVars, fsmVars, sweepVars, obsVars>>

\* void CustomKeypad::begin(), the call recorded in hist
beginTraced ==
    /\ pc = "idle"
    /\ colMode' = [c \in Cols |-> "OUTPUT"]
    /\ colLevel' = [c \in Cols |-> "LOW"]
    /\ rowMode' = [r \in Rows |-> "INPUT"]
    /\ hist' = [NoHist EXCEPT !.op = "begin"]
    /\ UNCHANGED <<now, closed, cfgVars, fsmVars, sweepVars, obsVars>>

NextPins ==
    \/ beginTraced
    \/ Toggle
    \/ Tick
    \/ setDebounceTime
    \/ addEventListener
    \/ ScanStart
    \/ ScanColHigh
    \/ ScanRowMiss
    \/ ScanRowHit
    \/ ScanColLow
    \/ ScanDone
    \/ KeysStart
    \/ KeysColHigh
    \/ KeysRowMiss
    \/ KeysRowHit
    \/ KeysColLow
    \/ KeysDone

SpecPins == Init /\ [][NextPins]_vars

\* ================================================================= claims
AllColumnsLow == \A c \in Cols : colLevel[c] = "LOW"

HighColumns == {c \in Cols : colLevel[c] = "HIGH"}

\* the closed switch first in sweep order: smallest column, then smallest row
FirstClosed(cl) ==
    IF cl = {} THEN 0
    ELSE LET c0 == CHOOSE c \in Cols :
                      /\ \E r \in Rows : <<r, c>> \in cl
                      /\ \A p \in cl : c <= p[2]
             r0 == CHOOSE r \in Rows :
                      /\ <<r, c0>> \in cl
                      /\ \A p \in cl : p[2] = c0 => r <= p[1]
         IN  Keymap(r0, c0)

\* C1: in every reachable state key_state == RELEASED holds if and only if
\* last_key == 0.
C1_ReleasedIffNoKey == (keyState = KEY_RELEASED) <=> (lastKey = 0)

\* C2: in every reachable state holding == true implies key_state == HOLD and
\* last_key != 0.
C2_HoldingImpliesHold == holding => (keyState = KEY_HOLD /\ lastKey # 0)

\* C3: a poll that scans a value differing from the accepted key within the
\* debounce window suppresses the change and returns the previously accepted
\* key, not the scanned value.
C3_SuppressedReturnsAccepted ==
    (hist.op = "poll" /\ hist.ev = "suppress" /\ hist.key # accKey)
        => hist.ret = accKey

\* C4: a change to k that was suppressed and has been scanned on every poll
\* since is accepted by the first poll made after the debounce window: the
\* state becomes PRESSED (k != 0) or RELEASED (k == 0) and the listener is
\* invoked with k.
C4_PersistentChangeAccepted ==
    (hist.op = "poll" /\ hist.due)
        => /\ hist.ev = "accept"
           /\ keyState = (IF hist.key # 0 THEN KEY_PRESSED ELSE KEY_RELEASED)
           /\ (eventListener # NullListener => hist.calls = <<hist.key>>)

\* C5: a poll accepts a change only when strictly more than debounce_ms have
\* passed since the last accepted change; a change scanned exactly
\* debounce_ms after it is not accepted.
C5_DebounceLowerBound ==
    hist.op = "poll" =>
        /\ (hist.ev = "accept" => now - hist.preChange > debounceTime)
        /\ (hist.key # hist.preKey /\ now - hist.preChange = debounceTime
               => hist.ev = "suppress" /\ lastChange = hist.preChange)

\* C5 witness: a second accepted change, as early after the first as the
\* debounce allows.
C5_Witness ==
    /\ hist.op = "poll"
    /\ hist.ev = "accept"
    /\ hist.preChange > 0
    /\ now - hist.preChange = debounceTime + 1

\* C6: with a listener registered a poll invokes it exactly once, with the
\* scanned key, if the poll accepts a change or enters HOLD, and not at all
\* otherwise; so the invocations made equal the accepted changes plus the
\* hold entries.
C6_OneEventPerTransition ==
    /\ surplus = 0
    /\ (hist.op = "poll" /\ eventListener # NullListener)
          => hist.calls = (IF hist.ev \in {"accept", "hold"}
                           THEN <<hist.key>> ELSE <<>>)

\* C6 witness: a poll with a listener registered enters HOLD and has invoked
\* the listener once.
C6_Witness ==
    /\ hist.op = "poll"
    /\ eventListener # NullListener
    /\ hist.ev = "hold"
    /\ Len(hist.calls) = 1

\* C7: at most one hold event is dispatched between two consecutive accepted
\* changes, and a poll that scans the same key after its hold event
\* dispatches nothing.
C7_HoldExclusive ==
    /\ holdsSinceAccept <= 1
    /\ (hist.op = "poll" /\ hist.preHolding /\ hist.key = hist.preKey)
          => (hist.ev = "none" /\ hist.calls = <<>>)

\* C7 witness: a poll scans the held key again, the hold time has passed and
\* a listener is registered.
C7_Witness ==
    /\ hist.op = "poll"
    /\ hist.preHolding
    /\ hist.key = hist.preKey
    /\ hist.key # 0
    /\ now - pressStart >= holdTime
    /\ eventListener # NullListener

\* C8: key_state changes to HOLD only from PRESSED, never directly from
\* RELEASED, and a hold event for K follows a press event for the same K
\* with no other accepted change in between.
C8_HoldOnlyFromPressed ==
    (hist.op = "poll" /\ hist.ev = "hold")
        => (hist.preState = KEY_PRESSED /\ accKey = hist.key)

\* C9: once begin has run, every column pin is LOW on return from a poll or
\* a scan_all (the early return of the single-key scan included), and at no
\* point of a sweep is more than one column HIGH.
C9_ColumnsLow ==
    Begun => /\ (pc = "idle" => AllColumnsLow)
             /\ Cardinality(HighColumns) <= 1

\* C9 witness: a poll has returned early with two or more switches closed.
C9_Witness ==
    /\ Begun
    /\ pc = "idle"
    /\ hist.op = "poll"
    /\ hist.key # 0
    /\ Cardinality(hist.cl) >= 2
    /\ AllColumnsLow

\* C10: the scan returns 0 when no switch is closed, and otherwise the keymap
\* character of the closed switch with the smallest column and, in that
\* column, the smallest row.
C10_ScanFirstClosed == hist.op = "poll" => hist.key = FirstClosed(hist.cl)

\* C10 witness: a poll scanned two closed switches of which the one in the
\* smaller column is in the larger row.
C10_Witness ==
    /\ hist.op = "poll"
    /\ \E p, q \in hist.cl : p[2] < q[2] /\ p[1] > q[1]

\* p comes before q in sweep order: ascending column, then ascending row
SweepBefore(p, q) == p[2] < q[2] \/ (p[2] = q[2] /\ p[1] < q[1])

\* the closed switch with i closed switches before it in sweep order
SweepNth(cl, i) ==
    CHOOSE p \in cl : Cardinality({q \in cl : SweepBefore(q, p)}) = i

MinOf(a, b) == IF a <= b THEN a ELSE b

\* C11: scan_all(buffer, max) returns min(|S|, max), writes exactly that many
\* entries, the keymap characters of the first min(|S|, max) closed switches
\* in sweep order, and writes no buffer index >= max.
C11_ScanAllSnapshot ==
    hist.op = "keys" =>
        LET n == MinOf(Cardinality(hist.cl), hist.max)
        IN  /\ hist.ret = n
            /\ \A i \in 0 .. MaxKeys :
                  hist.buf[i] = IF i < n
                                THEN LET p == SweepNth(hist.cl, i)
                                     IN  Keymap(p[1], p[2])
                                ELSE 0

\* C11 witness: a scan_all with more switches closed than max >= 2, two of
\* them ordered differently by column and by row.
C11_Witness ==
    /\ hist.op = "keys"
    /\ hist.max >= 2
    /\ Cardinality(hist.cl) > hist.max
    /\ \E p, q \in hist.cl : p[2] < q[2] /\ p[1] > q[1]

\* C12: once a hold event has been dispatched for a press, calls of
\* set_hold_ms and set_debounce_ms followed by polls that scan the same key
\* cause no further listener invocation and leave key_state == HOLD and
\* holding == true; the setters change debounce_ms / hold_ms and nothing else.
C12_HoldSurvivesSetters ==
    /\ [](holdsSinceAccept >= 1 => (holding /\ keyState = KEY_HOLD))
    /\ []((hist.op = "poll" /\ hist.preHolding /\ hist.key = hist.preKey)
             => (hist.calls = <<>> /\ holding /\ keyState = KEY_HOLD))
    /\ [][(debounceTime' # debounceTime \/ holdTime' # holdTime)
             => UNCHANGED <<fsmVars, eventListener, pinVars, now, closed,
                            holdsSinceAccept, surplus>>]_vars

\* C12 witness: a poll scans the held key after set_hold_ms raised the hold
\* time above the time the key has been pressed.
C12_Witness ==
    /\ hist.op = "poll"
    /\ hist.preHolding
    /\ hist.key = hist.preKey
    /\ hist.key # 0
    /\ keyState = KEY_HOLD
    /\ now - pressStart < holdTime
    /\ eventListener # NullListener

\* the pin state begin sets up: columns OUTPUT and LOW, rows INPUT
PinsAsBegun ==
    /\ colMode = [c \in Cols |-> "OUTPUT"]
    /\ rowMode = [r \in Rows |-> "INPUT"]
    /\ colLevel = [c \in Cols |-> "LOW"]

\* C13: begin is idempotent: after any begin, also one that follows polls and
\* scans, every column is OUTPUT and LOW and every row INPUT, which is what
\* the pins already are between calls once begin has run; begin changes no
\* state-machine field.
C13_BeginIdempotent ==
    /\ [](hist.op = "begin" => PinsAsBegun)
    /\ []((Begun /\ pc = "idle") => PinsAsBegun)
    /\ [][hist'.op = "begin" => UNCHANGED <<fsmVars, cfgVars, now, closed>>]_vars

\* C13 witness: begin has just run again, after polls that left a key in
\* last_key.
C13_Witness ==
    /\ hist.op = "begin"
    /\ lastKey # 0
    /\ PinsAsBegun

\* C14: a poll that scans k != last_key at a time t with
\* t - last_change_ms > debounce_ms sets last_change_ms = press_start_ms = t,
\* clears holding, sets key_state to PRESSED if k != 0 else RELEASED, and
\* invokes the listener exactly once, with k (0 on a release, B on a direct
\* change from A to B).
C14_AcceptChange ==
    (hist.op = "poll" /\ hist.key # hist.preKey
        /\ now - hist.preChange > debounceTime)
    => /\ lastChange = now
       /\ pressStart = now
       /\ ~holding
       /\ keyState = (IF hist.key # 0 THEN KEY_PRESSED ELSE KEY_RELEASED)
       /\ (eventListener # NullListener => hist.calls = <<hist.key>>)

\* C14 witness: with a listener registered, a held key A changes directly to
\* another key B and the change is accepted.
C14_Witness ==
    /\ hist.op = "poll"
    /\ hist.ev = "accept"
    /\ hist.preKey # 0
    /\ hist.key # 0
    /\ hist.key # hist.preKey
    /\ hist.preHolding
    /\ eventListener # NullListener

\* C15: in every branch of poll (change accepted, change suppressed, hold
\* entered, no change) last_key becomes k and k is returned, k being the
\* result of that poll's scan; so is_pressed(c) is true exactly for the
\* returned character.
C15_PollReturnsScan ==
    hist.op = "poll" =>
        /\ hist.key = FirstClosed(hist.cl)
        /\ lastKey = hist.key
        /\ hist.ret = hist.key
        /\ \A c \in Chars \cup {0} : isPressed(c) <=> (c = hist.ret)

\* C15 witness: a poll whose change the debounce suppressed has returned the
\* scanned key and left it in last_key.
C15_Witness ==
    /\ hist.op = "poll"
    /\ hist.ev = "suppress"
    /\ hist.key # hist.preKey
    /\ hist.ret = hist.key
    /\ isPressed(hist.key)

\* C16 (second half): a poll that scans the key of the poll before it, the hold
\* not yet latched, enters HOLD exactly when t - press_start_ms >= hold_ms,
\* equality included, and not earlier.
C16_FiresAtThreshold ==
    (hist.op = "poll" /\ hist.key # 0 /\ hist.key = hist.preKey
        /\ ~hist.preHolding) =>
        (hist.ev = "hold" <=> now - pressStart >= holdTime)

\* C16: whenever a poll at time t enters HOLD for key K, K has been the scan
\* result of every poll since some time t0 with t - t0 >= hold_ms (no poll later
\* than t - hold_ms scanned anything else); and the hold event fires at the
\* first poll with t - press_start_ms >= hold_ms, not earlier.
C16_HoldAfterContinuousPress ==
    /\ hist.ev = "hold" => (otherAt = NoPend \/ now - otherAt >= holdTime)
    /\ C16_FiresAtThreshold

KeysPcs == {"keysCol", "keysRow"}

\* C17: scan_all leaves last_key, key_state, last_change_ms, press_start_ms and
\* holding unchanged and never invokes the listener, whatever switches are
\* closed; nor does any of its steps change what a poll reads besides (the
\* configuration, the pin modes, and the column levels once it has returned),
\* so scan_all calls between polls do not change what the polls produce.
C17_ScanAllFrame ==
    /\ [](hist.op = "keys" => (hist.calls = <<>> /\ PinsAsBegun))
    /\ [][(pc \in KeysPcs \/ pc' \in KeysPcs) =>
            UNCHANGED <<fsmVars, cfgVars, colMode, rowMode, pend, accKey,
                        holdsSinceAccept, surplus>>]_vars

\* C17 witness: with a listener installed and a key PRESSED, scan_all has
\* returned a snapshot whose first key is not last_key.
C17_Witness ==
    /\ hist.op = "keys"
    /\ hist.ret > 0
    /\ eventListener # NullListener
    /\ keyState = KEY_PRESSED
    /\ lastKey # 0
    /\ hist.buf[0] # lastKey

\* C18: with no listener registered poll dispatches nothing, and the state
\* machine evolves as with one: what a poll leaves in last_key, key_state,
\* last_change_ms, press_start_ms and holding, and what it returns, is a
\* function of the state before it, the scan and the clock alone, the same
\* whether a listener is installed or not. add_event_listener replaces the
\* single listener and changes no other state.
C18_ListenerNoninterference ==
    /\ []((hist.op = "poll" /\ eventListener = NullListener) => hist.calls = <<>>)
    /\ [][hist'.op = "poll" =>
            LET k == hist'.key
                accept == k # lastKey /\ now - lastChange > debounceTime
                hold == k = lastKey /\ k # 0 /\ ~holding
                            /\ now - pressStart >= holdTime
            IN  /\ hist'.ret = k
                /\ lastKey' = k
                /\ lastChange' = (IF accept THEN now ELSE lastChange)
                /\ pressStart' = (IF accept THEN now ELSE pressStart)
                /\ holding' = (IF accept THEN FALSE ELSE IF hold THEN TRUE ELSE holding)
                /\ keyState' = (IF accept
                                THEN (IF k # 0 THEN KEY_PRESSED ELSE KEY_RELEASED)
                                ELSE IF hold THEN KEY_HOLD ELSE keyState)]_vars
    /\ [][eventListener' # eventListener =>
            UNCHANGED <<fsmVars, debounceTime, holdTime, pinVars, now, closed,
                        sweepVars>>]_vars

\* C18 witness: a poll made with no listener installed has entered HOLD and
\* dispatched nothing.
C18_Witness ==
    /\ hist.op = "poll"
    /\ eventListener = NullListener
    /\ hist.ev = "hold"
    /\ hist.calls = <<>>
    /\ keyState = KEY_HOLD
    /\ holding

\* C19: in every reachable state press_start_ms = last_change_ms (the two are
\* written only together, on an accepted change) and both are at most the
\* clock, so t - last_change_ms and t - press_start_ms never underflow.
C19_PressStartIsLastChange ==
    /\ pressStart = lastChange
    /\ lastChange <= now
    /\ pressStart <= now

\* C19 witness: a release has been accepted at a later time than the press
\* before it.
C19_Witness ==
    /\ hist.op = "poll"
    /\ hist.ev = "accept"
    /\ hist.key = 0
    /\ hist.preChange > 0
    /\ lastChange > hist.preChange
    /\ pressStart = lastChange

\* C20: at the moment the listener is invoked with character k, key_state
\* already holds the post-transition value (PRESSED for an accepted k # 0,
\* RELEASED for an accepted k = 0, HOLD for a hold entry), but last_key still
\* holds the previous poll's value; so inside the listener is_pressed(k) is
\* false for an accepted change and true for a hold entry.
C20_ListenerSeesOldLastKey ==
    (hist.op = "poll" /\ hist.calls # <<>>) =>
        /\ hist.calls = <<hist.key>>
        /\ hist.ev \in {"accept", "hold"}
        /\ hist.seen.lastKey = hist.preKey
        /\ hist.ev = "accept" =>
              /\ hist.seen.state =
                    (IF hist.key # 0 THEN KEY_PRESSED ELSE KEY_RELEASED)
              /\ hist.seen.lastKey # hist.key
              /\ ~hist.seen.pressed
        /\ hist.ev = "hold" =>
              /\ hist.seen.state = KEY_HOLD
              /\ hist.seen.lastKey = hist.key
              /\ hist.seen.pressed

\* C20 witness: the listener was invoked for an accepted press of k, saw
\* PRESSED and is_pressed(k) false, and after the poll is_pressed(k) is true.
C20_Witness ==
    /\ hist.op = "poll"
    /\ hist.ev = "accept"
    /\ hist.calls = <<hist.key>>
    /\ hist.key # 0
    /\ hist.seen.state = KEY_PRESSED
    /\ ~hist.seen.pressed
    /\ isPressed(hist.key)

====
